---- MODULE Spec2Model ----
(***************************************************************************)
(* Model of the memecoin contract (src/src/lib.rs): a token ledger with    *)
(* tipping and a top-tipper pointer, staking with a fixed-rate reward,     *)
(* one-time referrals and admin-run governance proposals.                  *)
(*                                                                         *)
(* Every state-changing method of Contract is one action (nft_mint only    *)
(* logs and is left out).  Each method is written as a function from the   *)
(* contract state, a record of the Contract fields, to the state it        *)
(* commits and its outcome, so that calls can also be composed.  A call    *)
(* that panics commits nothing (the host discards the writes of a failed   *)
(* call): it changes only the observation variable `last`.                 *)
(*                                                                         *)
(* Scaling.  The contract's amounts are u128 and its minimum deposit is    *)
(* 10^16; TLC's integers are 32 bits wide.  Amounts are therefore kept in  *)
(* a narrower unsigned type 0 .. U128Max and the minimum deposit is        *)
(* MinDeposit = 100; the divisors 100 and the rate 5 are the source's.     *)
(* Time is counted in days, so the voting period is the source's 7 days.   *)
(*                                                                         *)
(* Arithmetic.  `+`, `-` and `*` on u128 are Rust's checked operators: a   *)
(* result outside 0 .. U128Max is a panic ("attempt to add with            *)
(* overflow"), so the call fails with "Overflow" and commits nothing.      *)
(* This is the behaviour of every debug and test build and of a release    *)
(* build with overflow-checks, the profile NEAR contracts are built with;  *)
(* a release build without overflow-checks would wrap instead, and is not  *)
(* modelled.                                                               *)
(***************************************************************************)
EXTENDS Integers, FiniteSets, Sequences, TLC

\* ------------------------------------------------------------------ bounds
\* Largest value of the unsigned amount type (stands for u128::MAX).
U128Max == 255
\* Upper bound on the number of calls in a behaviour of staking or governance.
MaxCalls == 5
\* Upper bound on the number of calls in a behaviour of the ledger.
MaxCallsLedger == 4
\* Upper bound on the number of calls in a behaviour of the whole contract.
MaxCallsAll == 3
\* Upper bound on the number of proposals created.
MaxProposals == 2
\* Latest block timestamp (days).
MaxTime == 8

\* ------------------------------------------------------- program constants
\* Minimum deposit of mint (10_000_000_000_000_000 yoctoNEAR in the source).
MinDeposit == 100
\* Divisor of the referral bonus: bonus = deposit / 100.
BonusDivisor == 100
\* Staking reward: staked * 5 / 100.
RewardRate == 5
RewardDivisor == 100
\* Voting window of a proposal: 7 days.
VotingPeriod == 7

\* ------------------------------------------------------------------ inputs
Account == {"alice", "bob", "carol"}
\* The account that deploys the contract and calls new().
Deployer == "alice"
None == "none"
\* Attached deposits of mint: below the minimum, the minimum, and one that
\* is not a multiple of the bonus divisor.
Deposits == {MinDeposit - 1, MinDeposit, 150}
\* Amounts of tip, withdraw and burn.
Amounts == {0, 20, 100}
\* Amounts of stake and unstake: around the reward threshold of 20.
StakeAmounts == {0, 19, 20, 100}
Descriptions == {"upgrade X"}
ProposalIds == 0 .. MaxProposals
\* Block timestamps: the start, the last day of a voting window opened at
\* the start, its deadline, and later.
Timestamps == {0, VotingPeriod - 1, VotingPeriod, MaxTime}

NoProposal == [absent |-> TRUE]

VARIABLES
    balances,          \* balances: LookupMap<AccountId, u128>, absent = 0
    total_supply,      \* total_supply: u128
    admin,             \* admin: AccountId
    referrals,         \* referrals: LookupMap<AccountId, AccountId>, absent = None
    staked,            \* staked: LookupMap<AccountId, u128>, absent = 0
    proposals,         \* proposals: LookupMap<u64, Proposal>, absent = NoProposal
    next_proposal_id,  \* next_proposal_id: u64
    tip_totals,        \* tip_totals: LookupMap<AccountId, u128>, absent = 0
    top_tipper,        \* top_tipper: Option<AccountId>
    now,               \* env::block_timestamp()
    budget,            \* number of calls the behaviour may still make
    last,              \* the last call: its method, arguments and outcome
    cast,              \* per proposal, the voting power cast for and against
    withdrawn          \* the sum of the amounts of all successful withdraws

vars == <<balances, total_supply, admin, referrals, staked, proposals,
          next_proposal_id, tip_totals, top_tipper, now, budget, last, cast,
          withdrawn>>

\* The contract state as one value (struct Contract).
Cur == [balances |-> balances, total_supply |-> total_supply, admin |-> admin,
        referrals |-> referrals, staked |-> staked, proposals |-> proposals,
        next_proposal_id |-> next_proposal_id, tip_totals |-> tip_totals,
        top_tipper |-> top_tipper]

\* ---------------------------------------------------------------- helpers
\* The result of an arithmetic operation fits the unsigned type.
Fits(x) == 0 <= x /\ x <= U128Max

\* Outcome of a call: the state it commits and its result.
Out(S, res) == [st |-> S, res |-> res]

\* A failed assertion: the call panics and nothing is committed.
Panic(S, err) == Out(S, err)

\* A call whose arithmetic overflowed keeps what its body wrote.
Return_keeps_writes(S, S2, ovf) ==
    IF ovf THEN Out(S2, "Overflow") ELSE Out(S2, "ok")

\* End of a call body whose writes give S2 and whose arithmetic overflowed
\* iff ovf: an overflow is a panic.
Return(S, S2, ovf) ==
    IF ovf THEN Panic(S, "Overflow") ELSE Out(S2, "ok")

\* ------------------------------------------------------------------- views
get_balance(S, account) == S.balances[account]
get_total_supply(S) == S.total_supply
get_top_tipper(S) == S.top_tipper

\* -------------------------------------------------------------------- Init
\* The state after new(), with n calls to come.
Start(n) ==
    /\ balances = [a \in Account |-> 0]
    /\ total_supply = 0
    /\ admin = Deployer
    /\ referrals = [a \in Account |-> None]
    /\ staked = [a \in Account |-> 0]
    /\ proposals = [i \in ProposalIds |-> NoProposal]
    /\ next_proposal_id = 0
    /\ tip_totals = [a \in Account |-> 0]
    /\ top_tipper = None
    /\ now = 0
    /\ budget = n
    /\ last = [op |-> "new", args |-> <<Deployer>>, res |-> "ok"]
    /\ cast = [i \in ProposalIds |-> [for |-> 0, against |-> 0]]
    /\ withdrawn = 0

Init == Start(MaxCallsAll)

\* ----------------------------------------------------------------- ledger
\* mint with the minimum deposit rejected (`>` for `>=`).
mint_min_exclusive(S, caller, deposit_amount) ==
    IF ~(deposit_amount > MinDeposit)
    THEN Panic(S, "InsufficientDeposit")
    ELSE LET new_balance == S.balances[caller] + deposit_amount
             b1 == [S.balances EXCEPT ![caller] = new_balance]
             ts1 == S.total_supply + deposit_amount
             referrer == S.referrals[caller]
         IN  IF referrer # None
             THEN LET bonus == deposit_amount \div BonusDivisor
                      new_ref_balance == b1[referrer] + bonus
                      ts2 == ts1 + bonus
                  IN  Return(S, [S EXCEPT
                                   !.balances = [b1 EXCEPT ![referrer] = new_ref_balance],
                                   !.total_supply = ts2],
                             ~Fits(new_balance) \/ ~Fits(ts1)
                               \/ ~Fits(new_ref_balance) \/ ~Fits(ts2))
             ELSE Return(S, [S EXCEPT !.balances = b1, !.total_supply = ts1],
                         ~Fits(new_balance) \/ ~Fits(ts1))

\* mint whose referral bonus is credited to the referrer but not counted in
\* the total supply.
mint_bonus_uncounted(S, caller, deposit_amount) ==
    IF ~(deposit_amount >= MinDeposit)
    THEN Panic(S, "InsufficientDeposit")
    ELSE LET new_balance == S.balances[caller] + deposit_amount
             b1 == [S.balances EXCEPT ![caller] = new_balance]
             ts1 == S.total_supply + deposit_amount
             referrer == S.referrals[caller]
         IN  IF referrer # None
             THEN LET bonus == deposit_amount \div BonusDivisor
                      new_ref_balance == b1[referrer] + bonus
                  IN  Return(S, [S EXCEPT
                                   !.balances = [b1 EXCEPT ![referrer] = new_ref_balance],
                                   !.total_supply = ts1],
                             ~Fits(new_balance) \/ ~Fits(ts1) \/ ~Fits(new_ref_balance))
             ELSE Return(S, [S EXCEPT !.balances = b1, !.total_supply = ts1],
                         ~Fits(new_balance) \/ ~Fits(ts1))

\* mint that credits the deposit without adding it to total_supply.
mint_supply_uncounted(S, caller, deposit_amount) ==
    IF ~(deposit_amount >= MinDeposit)
    THEN Panic(S, "InsufficientDeposit")
    ELSE LET new_balance == S.balances[caller] + deposit_amount
             b1 == [S.balances EXCEPT ![caller] = new_balance]
             referrer == S.referrals[caller]
         IN  IF referrer # None
             THEN LET bonus == deposit_amount \div BonusDivisor
                      new_ref_balance == b1[referrer] + bonus
                      ts2 == S.total_supply + bonus
                  IN  Return(S, [S EXCEPT
                                   !.balances = [b1 EXCEPT ![referrer] = new_ref_balance],
                                   !.total_supply = ts2],
                             ~Fits(new_balance) \/ ~Fits(new_ref_balance) \/ ~Fits(ts2))
             ELSE Return(S, [S EXCEPT !.balances = b1], ~Fits(new_balance))

mint(S, caller, deposit_amount) ==
    IF ~(deposit_amount >= MinDeposit)
    THEN Panic(S, "InsufficientDeposit")
    ELSE LET current_balance == S.balances[caller]
             new_balance == current_balance + deposit_amount
             b1 == [S.balances EXCEPT ![caller] = new_balance]
             ts1 == S.total_supply + deposit_amount
             referrer == S.referrals[caller]
         IN  IF referrer # None
             THEN LET bonus == deposit_amount \div BonusDivisor
                      ref_balance == b1[referrer]
                      new_ref_balance == ref_balance + bonus
                      ts2 == ts1 + bonus
                  IN  Return(S, [S EXCEPT
                                   !.balances = [b1 EXCEPT ![referrer] = new_ref_balance],
                                   !.total_supply = ts2],
                             ~Fits(new_balance) \/ ~Fits(ts1)
                               \/ ~Fits(new_ref_balance) \/ ~Fits(ts2))
             ELSE Return(S, [S EXCEPT !.balances = b1, !.total_supply = ts1],
                         ~Fits(new_balance) \/ ~Fits(ts1))

\* tip that reads the receiver's balance before it debits the sender, so a
\* self-tip credits the undebited balance.
tip_stale_receiver(S, sender, receiver, amount) ==
    LET sender_balance == S.balances[sender]
        receiver_balance == S.balances[receiver]
    IN  IF ~(sender_balance >= amount)
        THEN Panic(S, "InsufficientBalance")
        ELSE LET b1 == [S.balances EXCEPT ![sender] = sender_balance - amount]
                 credited == receiver_balance + amount
                 total_tip == S.tip_totals[sender] + amount
                 t1 == [S.tip_totals EXCEPT ![sender] = total_tip]
                 top == IF S.top_tipper # None
                        THEN LET top_amount == t1[S.top_tipper]
                             IN  IF total_tip > top_amount
                                 THEN sender ELSE S.top_tipper
                        ELSE sender
             IN  Return(S, [S EXCEPT
                              !.balances = [b1 EXCEPT ![receiver] = credited],
                              !.tip_totals = t1,
                              !.top_tipper = top],
                        ~Fits(credited) \/ ~Fits(total_tip))

\* tip whose ranking lets a sender that only equals the incumbent take over
\* (`>=` for `>`).
tip_tie_takes_over(S, sender, receiver, amount) ==
    LET sender_balance == S.balances[sender]
    IN  IF ~(sender_balance >= amount)
        THEN Panic(S, "InsufficientBalance")
        ELSE LET b1 == [S.balances EXCEPT ![sender] = sender_balance - amount]
                 credited == b1[receiver] + amount
                 total_tip == S.tip_totals[sender] + amount
                 t1 == [S.tip_totals EXCEPT ![sender] = total_tip]
                 top == IF S.top_tipper # None
                        THEN LET top_amount == t1[S.top_tipper]
                             IN  IF total_tip >= top_amount
                                 THEN sender ELSE S.top_tipper
                        ELSE sender
             IN  Return(S, [S EXCEPT
                              !.balances = [b1 EXCEPT ![receiver] = credited],
                              !.tip_totals = t1,
                              !.top_tipper = top],
                        ~Fits(credited) \/ ~Fits(total_tip))

\* tip that does not add the amount of a self-tip to the sender's total.
tip_self_untallied(S, sender, receiver, amount) ==
    LET sender_balance == S.balances[sender]
    IN  IF ~(sender_balance >= amount)
        THEN Panic(S, "InsufficientBalance")
        ELSE LET b1 == [S.balances EXCEPT ![sender] = sender_balance - amount]
                 credited == b1[receiver] + amount
                 total_tip == S.tip_totals[sender]
                                + (IF sender = receiver THEN 0 ELSE amount)
                 t1 == [S.tip_totals EXCEPT ![sender] = total_tip]
                 top == IF S.top_tipper # None
                        THEN LET top_amount == t1[S.top_tipper]
                             IN  IF total_tip > top_amount
                                 THEN sender ELSE S.top_tipper
                        ELSE sender
             IN  Return(S, [S EXCEPT
                              !.balances = [b1 EXCEPT ![receiver] = credited],
                              !.tip_totals = t1,
                              !.top_tipper = top],
                        ~Fits(credited) \/ ~Fits(total_tip))

tip(S, sender, receiver, amount) ==
    LET sender_balance == S.balances[sender]
    IN  IF ~(sender_balance >= amount)
        THEN Panic(S, "InsufficientBalance")
        ELSE LET b1 == [S.balances EXCEPT ![sender] = sender_balance - amount]
                 receiver_balance == b1[receiver]
                 credited == receiver_balance + amount
                 total_tip == S.tip_totals[sender] + amount
                 t1 == [S.tip_totals EXCEPT ![sender] = total_tip]
                 top == IF S.top_tipper # None
                        THEN LET top_amount == t1[S.top_tipper]
                             IN  IF total_tip > top_amount
                                 THEN sender ELSE S.top_tipper
                        ELSE sender
             IN  Return(S, [S EXCEPT
                              !.balances = [b1 EXCEPT ![receiver] = credited],
                              !.tip_totals = t1,
                              !.top_tipper = top],
                        ~Fits(credited) \/ ~Fits(total_tip))

\* withdraw that also takes the amount out of total_supply.
withdraw_shrinks_supply(S, sender, amount) ==
    LET sender_balance == S.balances[sender]
    IN  IF ~(sender_balance >= amount)
        THEN Panic(S, "InsufficientBalance")
        ELSE Return(S, [S EXCEPT !.balances[sender] = sender_balance - amount,
                                 !.total_supply = S.total_supply - amount],
                    ~Fits(S.total_supply - amount))

withdraw(S, sender, amount) ==
    LET sender_balance == S.balances[sender]
    IN  IF ~(sender_balance >= amount)
        THEN Panic(S, "InsufficientBalance")
        ELSE Return(S, [S EXCEPT !.balances[sender] = sender_balance - amount], FALSE)

burn(S, caller, amount) ==
    LET current_balance == S.balances[caller]
    IN  IF ~(current_balance >= amount)
        THEN Panic(S, "InsufficientBalance")
        ELSE Return(S, [S EXCEPT !.balances[caller] = current_balance - amount,
                                 !.total_supply = S.total_supply - amount],
                    ~Fits(S.total_supply - amount))

\* ---------------------------------------------------------------- staking
stake(S, caller, amount) ==
    LET available == S.balances[caller]
    IN  IF ~(available >= amount)
        THEN Panic(S, "InsufficientBalance")
        ELSE LET current_staked == S.staked[caller]
             IN  Return(S, [S EXCEPT !.balances[caller] = available - amount,
                                     !.staked[caller] = current_staked + amount],
                        ~Fits(current_staked + amount))

\* unstake that checks the amount against the available balance instead
\* of the staked balance.
unstake_checks_available(S, caller, amount) ==
    LET current_staked == S.staked[caller]
        available == S.balances[caller]
    IN  IF ~(available >= amount)
        THEN Panic(S, "InsufficientStake")
        ELSE Return(S, [S EXCEPT !.staked[caller] = current_staked - amount,
                                 !.balances[caller] = available + amount],
                    ~Fits(current_staked - amount) \/ ~Fits(available + amount))

unstake(S, caller, amount) ==
    LET current_staked == S.staked[caller]
    IN  IF ~(current_staked >= amount)
        THEN Panic(S, "InsufficientStake")
        ELSE LET available == S.balances[caller]
             IN  Return(S, [S EXCEPT !.staked[caller] = current_staked - amount,
                                     !.balances[caller] = available + amount],
                        ~Fits(available + amount))

\* claim_rewards that divides before it multiplies (staked / 100 * 5).
claim_rewards_divides_first(S, caller) ==
    LET staked_amount == S.staked[caller]
    IN  IF ~(staked_amount > 0)
        THEN Panic(S, "NoStake")
        ELSE LET reward == (staked_amount \div RewardDivisor) * RewardRate
                 available == S.balances[caller]
             IN  Return(S, [S EXCEPT !.balances[caller] = available + reward,
                                     !.total_supply = S.total_supply + reward],
                        ~Fits(reward) \/ ~Fits(available + reward)
                          \/ ~Fits(S.total_supply + reward))

\* claim_rewards that credits the reward without adding it to total_supply.
claim_rewards_unminted(S, caller) ==
    LET staked_amount == S.staked[caller]
    IN  IF ~(staked_amount > 0)
        THEN Panic(S, "NoStake")
        ELSE LET product == staked_amount * RewardRate
                 reward == product \div RewardDivisor
                 available == S.balances[caller]
             IN  Return(S, [S EXCEPT !.balances[caller] = available + reward],
                        ~Fits(product) \/ ~Fits(available + reward))

claim_rewards(S, caller) ==
    LET staked_amount == S.staked[caller]
    IN  IF ~(staked_amount > 0)
        THEN Panic(S, "NoStake")
        ELSE LET product == staked_amount * RewardRate
                 reward == product \div RewardDivisor
                 available == S.balances[caller]
             IN  Return(S, [S EXCEPT !.balances[caller] = available + reward,
                                     !.total_supply = S.total_supply + reward],
                        ~Fits(product) \/ ~Fits(available + reward)
                          \/ ~Fits(S.total_supply + reward))

\* --------------------------------------------------------------- referrals
\* register_referral without the check that no referrer is registered yet.
register_referral_overwrites(S, caller, referrer) ==
    IF ~(caller # referrer)
    THEN Panic(S, "SelfReferral")
    ELSE Return(S, [S EXCEPT !.referrals[caller] = referrer], FALSE)

register_referral(S, caller, referrer) ==
    IF ~(caller # referrer)
    THEN Panic(S, "SelfReferral")
    ELSE IF ~(S.referrals[caller] = None)
         THEN Panic(S, "AlreadyRegistered")
         ELSE Return(S, [S EXCEPT !.referrals[caller] = referrer], FALSE)

\* -------------------------------------------------------------- governance
\* propose without the increment of next_proposal_id.
propose_reuses_id(S, caller, description, timestamp) ==
    IF ~(caller = S.admin)
    THEN Panic(S, "NotAdmin")
    ELSE LET proposal == [id |-> S.next_proposal_id,
                          description |-> description,
                          votes_for |-> 0,
                          votes_against |-> 0,
                          deadline |-> timestamp + VotingPeriod,
                          finalized |-> FALSE]
         IN  Return(S, [S EXCEPT !.proposals[S.next_proposal_id] = proposal], FALSE)

propose(S, caller, description, timestamp) ==
    IF ~(caller = S.admin)
    THEN Panic(S, "NotAdmin")
    ELSE LET proposal == [id |-> S.next_proposal_id,
                          description |-> description,
                          votes_for |-> 0,
                          votes_against |-> 0,
                          deadline |-> timestamp + VotingPeriod,
                          finalized |-> FALSE]
         IN  Return(S, [S EXCEPT !.proposals[S.next_proposal_id] = proposal,
                                 !.next_proposal_id = S.next_proposal_id + 1],
                    FALSE)

\* vote whose power is the caller's available plus staked balance.
vote_counts_stake(S, caller, proposal_id, support, timestamp) ==
    LET voter_balance == S.balances[caller] + S.staked[caller]
    IN  IF ~(voter_balance > 0)
        THEN Panic(S, "NoVotingPower")
        ELSE IF S.proposals[proposal_id] = NoProposal
             THEN Panic(S, "ProposalNotFound")
             ELSE LET proposal == S.proposals[proposal_id]
                  IN  IF ~(timestamp < proposal.deadline)
                      THEN Panic(S, "VotingEnded")
                      ELSE IF support
                           THEN Return(S, [S EXCEPT !.proposals[proposal_id].votes_for =
                                              proposal.votes_for + voter_balance],
                                       ~Fits(proposal.votes_for + voter_balance))
                           ELSE Return(S, [S EXCEPT !.proposals[proposal_id].votes_against =
                                              proposal.votes_against + voter_balance],
                                       ~Fits(proposal.votes_against + voter_balance))

\* vote still open at the deadline itself (`<=` for `<`).
vote_deadline_inclusive(S, caller, proposal_id, support, timestamp) ==
    LET voter_balance == S.balances[caller]
    IN  IF ~(voter_balance > 0)
        THEN Panic(S, "NoVotingPower")
        ELSE IF S.proposals[proposal_id] = NoProposal
             THEN Panic(S, "ProposalNotFound")
             ELSE LET proposal == S.proposals[proposal_id]
                  IN  IF ~(timestamp <= proposal.deadline)
                      THEN Panic(S, "VotingEnded")
                      ELSE IF support
                           THEN Return(S, [S EXCEPT !.proposals[proposal_id].votes_for =
                                              proposal.votes_for + voter_balance],
                                       ~Fits(proposal.votes_for + voter_balance))
                           ELSE Return(S, [S EXCEPT !.proposals[proposal_id].votes_against =
                                              proposal.votes_against + voter_balance],
                                       ~Fits(proposal.votes_against + voter_balance))

vote(S, caller, proposal_id, support, timestamp) ==
    LET voter_balance == S.balances[caller]
    IN  IF ~(voter_balance > 0)
        THEN Panic(S, "NoVotingPower")
        ELSE IF S.proposals[proposal_id] = NoProposal
             THEN Panic(S, "ProposalNotFound")
             ELSE LET proposal == S.proposals[proposal_id]
                  IN  IF ~(timestamp < proposal.deadline)
                      THEN Panic(S, "VotingEnded")
                      ELSE IF support
                           THEN Return(S, [S EXCEPT !.proposals[proposal_id].votes_for =
                                              proposal.votes_for + voter_balance],
                                       ~Fits(proposal.votes_for + voter_balance))
                           ELSE Return(S, [S EXCEPT !.proposals[proposal_id].votes_against =
                                              proposal.votes_against + voter_balance],
                                       ~Fits(proposal.votes_against + voter_balance))

\* finalize_proposal without the deadline check.
finalize_proposal_any_time(S, caller, proposal_id, timestamp) ==
    IF ~(caller = S.admin)
    THEN Panic(S, "NotAdmin")
    ELSE IF S.proposals[proposal_id] = NoProposal
         THEN Panic(S, "ProposalNotFound")
         ELSE Return(S, [S EXCEPT !.proposals[proposal_id].finalized = TRUE], FALSE)

\* finalize_proposal without the admin check.
finalize_proposal_by_anyone(S, caller, proposal_id, timestamp) ==
    IF S.proposals[proposal_id] = NoProposal
    THEN Panic(S, "ProposalNotFound")
    ELSE LET proposal == S.proposals[proposal_id]
         IN  IF ~(timestamp >= proposal.deadline)
             THEN Panic(S, "VotingNotEnded")
             ELSE Return(S, [S EXCEPT !.proposals[proposal_id].finalized = TRUE],
                         FALSE)

finalize_proposal(S, caller, proposal_id, timestamp) ==
    IF ~(caller = S.admin)
    THEN Panic(S, "NotAdmin")
    ELSE IF S.proposals[proposal_id] = NoProposal
         THEN Panic(S, "ProposalNotFound")
         ELSE LET proposal == S.proposals[proposal_id]
              IN  IF ~(timestamp >= proposal.deadline)
                  THEN Panic(S, "VotingNotEnded")
                  ELSE Return(S, [S EXCEPT !.proposals[proposal_id].finalized = TRUE],
                              FALSE)

\* ------------------------------------------------------------------ calls
\* One call of method op with outcome out: the host commits out.st; the
\* call is observed in `last`, a successful vote's power in `cast` and a
\* successful withdraw's amount in `withdrawn`.
Run(op, args, out) ==
    /\ budget > 0
    /\ budget' = budget - 1
    /\ balances' = out.st.balances
    /\ total_supply' = out.st.total_supply
    /\ admin' = out.st.admin
    /\ referrals' = out.st.referrals
    /\ staked' = out.st.staked
    /\ proposals' = out.st.proposals
    /\ next_proposal_id' = out.st.next_proposal_id
    /\ tip_totals' = out.st.tip_totals
    /\ top_tipper' = out.st.top_tipper
    /\ last' = [op |-> op, args |-> args, res |-> out.res]
    /\ cast' = IF op = "vote" /\ out.res = "ok"
               THEN [cast EXCEPT ![args[2]][IF args[3] THEN "for" ELSE "against"] =
                                     @ + balances[args[1]]]
               ELSE cast
    /\ withdrawn' = IF op = "withdraw" /\ out.res = "ok"
                    THEN withdrawn + args[2]
                    ELSE withdrawn
    /\ UNCHANGED now

Mint(c, d) == Run("mint", <<c, d>>, mint(Cur, c, d))
Tip(s, r, a) == Run("tip", <<s, r, a>>, tip(Cur, s, r, a))
Withdraw(c, a) == Run("withdraw", <<c, a>>, withdraw(Cur, c, a))
Burn(c, a) == Run("burn", <<c, a>>, burn(Cur, c, a))
Stake(c, a) == Run("stake", <<c, a>>, stake(Cur, c, a))
Unstake(c, a) == Run("unstake", <<c, a>>, unstake(Cur, c, a))
ClaimRewards(c) == Run("claim_rewards", <<c>>, claim_rewards(Cur, c))
RegisterReferral(c, r) == Run("register_referral", <<c, r>>, register_referral(Cur, c, r))
Propose(c, d) ==
    /\ next_proposal_id < MaxProposals
    /\ Run("propose", <<c, d>>, propose(Cur, c, d, now))
Vote(c, p, s) == Run("vote", <<c, p, s>>, vote(Cur, c, p, s, now))
FinalizeProposal(c, p) == Run("finalize_proposal", <<c, p>>, finalize_proposal(Cur, c, p, now))

\* The host's clock: block timestamps never decrease.
AdvanceTime(t) ==
    /\ t > now
    /\ now' = t
    /\ UNCHANGED <<balances, total_supply, admin, referrals, staked, proposals,
                   next_proposal_id, tip_totals, top_tipper, budget, last, cast,
                   withdrawn>>

\* Inputs of the calls.
SomeMint == \E c \in Account, d \in Deposits : Mint(c, d)
SomeTip == \E s \in Account, r \in Account, a \in Amounts : Tip(s, r, a)
SomeWithdraw == \E c \in Account, a \in Amounts : Withdraw(c, a)
SomeBurn == \E c \in Account, a \in Amounts : Burn(c, a)
SomeStake == \E c \in Account, a \in StakeAmounts : Stake(c, a)
SomeUnstake == \E c \in Account, a \in StakeAmounts : Unstake(c, a)
SomeClaimRewards == \E c \in Account : ClaimRewards(c)
SomeRegisterReferral == \E c \in Account, r \in Account : RegisterReferral(c, r)
SomePropose == \E c \in Account, d \in Descriptions : Propose(c, d)
SomeVote == \E c \in Account, p \in ProposalIds, s \in BOOLEAN : Vote(c, p, s)
SomeFinalizeProposal == \E c \in Account, p \in ProposalIds : FinalizeProposal(c, p)
SomeAdvanceTime == \E t \in Timestamps : AdvanceTime(t)

\* The whole contract.
Next ==
    \/ SomeMint
    \/ SomeTip
    \/ SomeWithdraw
    \/ SomeBurn
    \/ SomeStake
    \/ SomeUnstake
    \/ SomeClaimRewards
    \/ SomeRegisterReferral
    \/ SomePropose
    \/ SomeVote
    \/ SomeFinalizeProposal
    \/ SomeAdvanceTime

Spec == Init /\ [][Next]_vars

\* The ledger: minting, referrals and tipping.
NextLedger ==
    \/ SomeMint
    \/ SomeTip
    \/ SomeRegisterReferral

SpecLedger == Start(MaxCallsLedger) /\ [][NextLedger]_vars

\* Leaving the ledger: minting, withdrawing and burning.
NextSupply ==
    \/ SomeMint
    \/ SomeWithdraw
    \/ SomeBurn

SpecSupply == Start(MaxCalls) /\ [][NextSupply]_vars

\* Staking: minting, staking, unstaking and claiming rewards.
NextStaking ==
    \/ SomeMint
    \/ SomeStake
    \/ SomeUnstake
    \/ SomeClaimRewards

SpecStaking == Start(MaxCalls) /\ [][NextStaking]_vars

\* Governance: minting and staking (voting power), proposals, votes, time.
NextGov ==
    \/ \E c \in Account : Mint(c, MinDeposit)
    \/ \E c \in Account : Stake(c, 20)
    \/ SomePropose
    \/ SomeVote
    \/ SomeFinalizeProposal
    \/ SomeAdvanceTime

SpecGov == Start(MaxCalls) /\ [][NextGov]_vars

\* ================================================================ properties
\* The step is a call of method op.
Called(op) == budget' # budget /\ last'.op = op
\* The step is a call of method op that returned normally.
Succeeded(op) == Called(op) /\ last'.res = "ok"
\* The contract state is left as it was.
Untouched == Cur' = Cur

\* C1: every successful tip(sender, receiver, amount), also with
\* sender = receiver, leaves balance(sender) + balance(receiver), every other
\* account's balance and total_supply as they were.
C1_TipConservesBalances ==
    [][Succeeded("tip") =>
        LET sender == last'.args[1]
            receiver == last'.args[2]
        IN  /\ balances'[sender] + balances'[receiver]
                 = balances[sender] + balances[receiver]
            /\ \A o \in Account \ {sender, receiver} : balances'[o] = balances[o]
            /\ total_supply' = total_supply]_vars

\* A self-tip of a positive amount has succeeded.
C1_SelfTipDone ==
    /\ last.op = "tip" /\ last.res = "ok"
    /\ last.args[1] = last.args[2]
    /\ last.args[3] > 0

\* C2: a mint of d >= MinDeposit by a caller without referrer that returns
\* adds exactly d to balance(caller) and to total_supply and changes no other
\* balance, and is never rejected for its deposit; a mint of d < MinDeposit
\* fails with InsufficientDeposit and changes nothing.
C2_MintWithoutReferrer ==
    [][Called("mint") =>
        LET caller == last'.args[1]
            d == last'.args[2]
        IN  /\ d < MinDeposit => last'.res = "InsufficientDeposit" /\ Untouched
            /\ d >= MinDeposit => last'.res # "InsufficientDeposit"
            /\ (referrals[caller] = None /\ last'.res = "ok") =>
                  /\ balances' = [balances EXCEPT ![caller] = @ + d]
                  /\ total_supply' = total_supply + d]_vars

\* A mint of exactly the minimum deposit by a caller without referrer has
\* succeeded.
C2_MinimumMinted ==
    /\ last.op = "mint" /\ last.res = "ok"
    /\ last.args[2] = MinDeposit
    /\ referrals[last.args[1]] = None

\* C3: a successful mint of d by a caller whose referrer r was registered
\* before it adds d to balance(caller), d \div 100 to balance(r) and
\* d + d \div 100 to total_supply; a mint by a caller without referrer
\* credits nobody else, and registering a referrer later pays nothing.
C3_MintWithReferrer ==
    [][/\ Succeeded("mint") =>
            LET caller == last'.args[1]
                d == last'.args[2]
                r == referrals[caller]
            IN  IF r # None
                THEN /\ balances'[caller] = balances[caller] + d
                     /\ balances'[r] = balances[r] + (d \div 100)
                     /\ \A o \in Account \ {caller, r} : balances'[o] = balances[o]
                     /\ total_supply' = total_supply + d + (d \div 100)
                ELSE /\ \A o \in Account \ {caller} : balances'[o] = balances[o]
                     /\ total_supply' = total_supply + d
       /\ Succeeded("register_referral") =>
            /\ balances' = balances
            /\ total_supply' = total_supply]_vars

\* A mint of a deposit that is not a multiple of 100 by a caller with a
\* referrer has succeeded.
C3_ReferredMintDone ==
    /\ last.op = "mint" /\ last.res = "ok"
    /\ referrals[last.args[1]] # None
    /\ last.args[2] % 100 # 0
    /\ balances[referrals[last.args[1]]] > 0

\* C4: once a tip has succeeded get_top_tipper() is an account, and its
\* tip_totals value is >= every account's; the top tipper changes only on a
\* successful tip, to the sender, whose new total is strictly greater than
\* the incumbent's (on a tie the incumbent stays).
C4_TopTipperIsMaximal ==
    /\ [](get_top_tipper(Cur) # None =>
            /\ get_top_tipper(Cur) \in Account
            /\ \A a \in Account : tip_totals[get_top_tipper(Cur)] >= tip_totals[a])
    /\ [][/\ Succeeded("tip") => get_top_tipper(Cur') # None
          /\ get_top_tipper(Cur') # get_top_tipper(Cur) =>
                /\ Succeeded("tip")
                /\ get_top_tipper(Cur') = last'.args[1]
                /\ get_top_tipper(Cur) # None =>
                      tip_totals'[last'.args[1]] > tip_totals[get_top_tipper(Cur)]]_vars

\* A tip has just brought its sender level with the incumbent top tipper,
\* who is another account.
C4_TieReached ==
    /\ last.op = "tip" /\ last.res = "ok"
    /\ top_tipper # None
    /\ top_tipper # last.args[1]
    /\ tip_totals[last.args[1]] = tip_totals[top_tipper]
    /\ tip_totals[top_tipper] > 0

\* C5: a successful tip adds exactly its amount to tip_totals[sender], also
\* when sender = receiver, and changes no other total; no step of any
\* operation decreases a tip_totals value.
C5_TipTotalsGrow ==
    [][/\ Succeeded("tip") =>
            tip_totals' = [tip_totals EXCEPT ![last'.args[1]] = @ + last'.args[3]]
       /\ \A a \in Account : tip_totals'[a] >= tip_totals[a]]_vars

\* A self-tip of a positive amount has been added to the sender's total.
C5_SelfTipTallied ==
    /\ last.op = "tip" /\ last.res = "ok"
    /\ last.args[1] = last.args[2]
    /\ last.args[3] > 0
    /\ tip_totals[last.args[1]] >= last.args[3]

\* C6: stake(a) with a <= available(caller) succeeds, and unstake(a) by the
\* same caller right after it succeeds and restores available(caller) and
\* staked(caller); neither call changes total_supply or another account's
\* available or staked balance.
C6_StakeThenUnstake ==
    [][Called("stake") =>
        LET caller == last'.args[1]
            a == last'.args[2]
            back == unstake(Cur', caller, a)
        IN  /\ a <= balances[caller] => last'.res = "ok"
            /\ last'.res = "ok" =>
                  /\ total_supply' = total_supply
                  /\ \A o \in Account \ {caller} :
                        balances'[o] = balances[o] /\ staked'[o] = staked[o]
                  /\ back.res = "ok"
                  /\ back.st.balances = balances
                  /\ back.st.staked = staked
                  /\ back.st.total_supply = total_supply]_vars

\* A positive amount has been staked on top of an earlier stake, with
\* available balance left.
C6_StakedOnTop ==
    /\ last.op = "stake" /\ last.res = "ok"
    /\ last.args[2] > 0
    /\ staked[last.args[1]] > last.args[2]
    /\ balances[last.args[1]] > 0

\* C7: a claim_rewards that returns, by a caller with staked amount s > 0,
\* adds exactly (s * 5) \div 100 to the caller's available balance and to
\* total_supply and leaves staked as it was, and a second claim right after
\* it adds the same reward again; with s = 0 the call fails with NoStake and
\* changes nothing.
C7_ClaimRewardsCredit ==
    [][Called("claim_rewards") =>
        LET caller == last'.args[1]
            s == staked[caller]
            reward == (s * 5) \div 100
            again == claim_rewards(Cur', caller)
        IN  /\ s = 0 => last'.res = "NoStake" /\ Untouched
            /\ s > 0 => last'.res # "NoStake"
            /\ last'.res = "ok" =>
                  /\ s > 0
                  /\ balances' = [balances EXCEPT ![caller] = @ + reward]
                  /\ total_supply' = total_supply + reward
                  /\ staked' = staked
                  /\ again.res = "ok" =>
                        /\ again.st.balances[caller] = balances[caller] + 2 * reward
                        /\ again.st.total_supply = total_supply + 2 * reward
                        /\ again.st.staked = staked]_vars

\* A claim has credited a positive reward for a stake that is not a
\* multiple of 100, and a second claim would succeed.
C7_RewardClaimed ==
    /\ last.op = "claim_rewards" /\ last.res = "ok"
    /\ (staked[last.args[1]] * 5) \div 100 > 0
    /\ staked[last.args[1]] % 100 # 0
    /\ balances[last.args[1]] >= (staked[last.args[1]] * 5) \div 100
    /\ claim_rewards(Cur, last.args[1]).res = "ok"

\* C8: register_referral(a, a) fails with SelfReferral, register_referral by
\* an account that has a referrer fails with AlreadyRegistered, both without
\* changing anything; in every reachable state no account is its own
\* referrer, and a recorded referrer never changes.
C8_ReferralWriteOnce ==
    /\ [](\A a \in Account : referrals[a] # a)
    /\ [][/\ \A a \in Account : referrals[a] # None => referrals'[a] = referrals[a]
          /\ Called("register_referral") =>
                LET caller == last'.args[1]
                    referrer == last'.args[2]
                IN  /\ caller = referrer =>
                          last'.res = "SelfReferral" /\ Untouched
                    /\ (caller # referrer /\ referrals[caller] # None) =>
                          last'.res = "AlreadyRegistered" /\ Untouched
                    /\ (caller # referrer /\ referrals[caller] = None) =>
                          last'.res = "ok" /\ referrals'[caller] = referrer]_vars

\* A second registration, naming another referrer, has been rejected.
C8_SecondRegistrationRejected ==
    /\ last.op = "register_referral" /\ last.res = "AlreadyRegistered"
    /\ referrals[last.args[1]] # None
    /\ referrals[last.args[1]] # last.args[2]

\* The proposal id has been created.
Exists(p) == proposals[p] # NoProposal

\* C9: a vote by a caller without available balance fails with
\* NoVotingPower; otherwise, on an id never created it fails with
\* ProposalNotFound, on a proposal with now >= deadline it fails with
\* VotingEnded, and on a proposal with now < deadline it succeeds; a failing
\* vote leaves both tallies as they were.
C9_VoteOutcome ==
    [][Called("vote") =>
        LET caller == last'.args[1]
            p == last'.args[2]
        IN  /\ balances[caller] = 0 => last'.res = "NoVotingPower"
            /\ (balances[caller] > 0 /\ ~Exists(p)) => last'.res = "ProposalNotFound"
            /\ (balances[caller] > 0 /\ Exists(p) /\ now >= proposals[p].deadline) =>
                  last'.res = "VotingEnded"
            /\ (balances[caller] > 0 /\ Exists(p) /\ now < proposals[p].deadline) =>
                  last'.res = "ok"
            /\ last'.res # "ok" => proposals' = proposals]_vars

\* C10: a successful vote adds the caller's available balance at the call
\* to votes_for when support is true and to votes_against otherwise, and
\* changes no other tally, no other field and no balance; so the tallies of
\* every proposal are the sums of the voters' balances over the supporting
\* and the opposing vote calls.
C10_VoteAddsCurrentBalance ==
    /\ [](\A p \in ProposalIds : Exists(p) =>
            /\ proposals[p].votes_for = cast[p].for
            /\ proposals[p].votes_against = cast[p].against)
    /\ [][Succeeded("vote") =>
            LET caller == last'.args[1]
                p == last'.args[2]
                support == last'.args[3]
                power == get_balance(Cur, caller)
            IN  /\ proposals' =
                      IF support
                      THEN [proposals EXCEPT ![p].votes_for = @ + power]
                      ELSE [proposals EXCEPT ![p].votes_against = @ + power]
                /\ balances' = balances
                /\ staked' = staked
                /\ total_supply' = total_supply]_vars

\* An account that has staked part of its balance has voted again on a
\* proposal it supported before, with another balance than the first time.
C10_VotedAgain ==
    /\ last.op = "vote" /\ last.res = "ok" /\ last.args[3]
    /\ staked[last.args[1]] > 0
    /\ balances[last.args[1]] > 0
    /\ cast[last.args[2]].for > balances[last.args[1]]
    /\ cast[last.args[2]].for # 2 * balances[last.args[1]]

\* C11: a proposal is created with finalized = FALSE; the flag of a
\* proposal becomes TRUE only in a successful finalize_proposal of that id
\* called by the admin at now >= deadline; a finalize_proposal by the admin
\* on an existing proposal at now < deadline fails with VotingNotEnded and
\* changes nothing; a flag that is TRUE never becomes FALSE again.
C11_FinalizedOnlyByFinalize ==
    [][/\ Succeeded("propose") => ~proposals'[next_proposal_id].finalized
       /\ \A p \in ProposalIds :
            /\ (Exists(p) /\ proposals[p].finalized) =>
                  proposals'[p] # NoProposal /\ proposals'[p].finalized
            /\ (/\ proposals'[p] # NoProposal
                /\ proposals'[p].finalized
                /\ ~(Exists(p) /\ proposals[p].finalized)) =>
                  /\ Succeeded("finalize_proposal")
                  /\ last'.args = <<admin, p>>
                  /\ Exists(p)
                  /\ now >= proposals[p].deadline
       /\ Called("finalize_proposal") =>
            LET caller == last'.args[1]
                p == last'.args[2]
            IN  (caller = admin /\ Exists(p) /\ now < proposals[p].deadline) =>
                    last'.res = "VotingNotEnded" /\ Untouched]_vars

\* The admin has finalized a proposal at the very timestamp of its deadline.
C11_FinalizedAtDeadline ==
    /\ last.op = "finalize_proposal" /\ last.res = "ok"
    /\ proposals[last.args[2]].finalized
    /\ now = proposals[last.args[2]].deadline

\* C12: finalize_proposal succeeds at most once per proposal: a call on a
\* proposal whose finalized flag is already TRUE is rejected with an error
\* and changes nothing.
C12_FinalizeOnce ==
    [][Called("finalize_proposal") =>
        LET p == last'.args[2]
        IN  (Exists(p) /\ proposals[p].finalized) =>
                last'.res # "ok" /\ Untouched]_vars

\* C13: next_proposal_id is 0 after construction, grows by exactly one in
\* every successful propose and is changed by no other step; the proposal
\* created gets the id next_proposal_id had before the call; in every
\* reachable state the existing proposals are exactly the ids
\* 0 .. next_proposal_id - 1, each stored under its own id, and no step
\* removes a proposal or changes its id, description or deadline.
C13_ProposalIdsSequential ==
    /\ [](/\ last.op = "new" => next_proposal_id = 0
          /\ \A p \in ProposalIds :
                /\ Exists(p) <=> p < next_proposal_id
                /\ Exists(p) => proposals[p].id = p)
    /\ [][/\ IF Succeeded("propose")
             THEN /\ next_proposal_id' = next_proposal_id + 1
                  /\ ~Exists(next_proposal_id)
                  /\ proposals'[next_proposal_id] # NoProposal
                  /\ proposals'[next_proposal_id].id = next_proposal_id
             ELSE next_proposal_id' = next_proposal_id
          /\ \A p \in ProposalIds : Exists(p) =>
                /\ proposals'[p] # NoProposal
                /\ proposals'[p].id = proposals[p].id
                /\ proposals'[p].description = proposals[p].description
                /\ proposals'[p].deadline = proposals[p].deadline]_vars

\* A second proposal has been created, at a later time than the first, and
\* the first is still stored under id 0.
C13_SecondProposalCreated ==
    /\ last.op = "propose" /\ last.res = "ok"
    /\ next_proposal_id = 2
    /\ proposals[0].id = 0 /\ proposals[1].id = 1
    /\ proposals[1].deadline > proposals[0].deadline

\* C14: the admin is the account that constructed the contract and no step
\* changes it; a propose or a finalize_proposal by any other account fails
\* with NotAdmin and leaves the proposals and next_proposal_id (and all the
\* rest of the state) as they were, so only the admin's calls succeed.
C14_AdminOnly ==
    /\ [](admin = Deployer)
    /\ [][/\ admin' = admin
          /\ (Called("propose") \/ Called("finalize_proposal")) =>
                IF last'.args[1] # admin
                THEN /\ last'.res = "NotAdmin"
                     /\ proposals' = proposals
                     /\ next_proposal_id' = next_proposal_id
                     /\ Untouched
                ELSE last'.res # "NotAdmin"]_vars

\* Another account than the admin has been refused the finalization of a
\* proposal whose deadline has passed and that is still open.
C14_StrangerRefused ==
    /\ last.op = "finalize_proposal" /\ last.res = "NotAdmin"
    /\ last.args[1] # admin
    /\ Exists(last.args[2])
    /\ now >= proposals[last.args[2]].deadline
    /\ ~proposals[last.args[2]].finalized

\* C15: a withdraw(amount) with balance(sender) >= amount succeeds, takes
\* amount from balance(sender) and leaves total_supply as it was; a
\* burn(amount) with balance(caller) >= amount succeeds and takes amount
\* from both balance(caller) and total_supply; with balance < amount either
\* call fails with InsufficientBalance and changes nothing.
C15_WithdrawAndBurn ==
    [][/\ Called("withdraw") =>
            LET sender == last'.args[1]
                amount == last'.args[2]
            IN  IF balances[sender] >= amount
                THEN /\ last'.res = "ok"
                     /\ balances' = [balances EXCEPT ![sender] = @ - amount]
                     /\ total_supply' = total_supply
                ELSE last'.res = "InsufficientBalance" /\ Untouched
       /\ Called("burn") =>
            LET caller == last'.args[1]
                amount == last'.args[2]
            IN  IF balances[caller] >= amount
                THEN /\ last'.res = "ok"
                     /\ balances' = [balances EXCEPT ![caller] = @ - amount]
                     /\ total_supply' = total_supply - amount
                ELSE last'.res = "InsufficientBalance" /\ Untouched]_vars

\* After a withdraw of a positive amount, a burn has emptied the ledger's
\* balances while total_supply still counts the withdrawn tokens.
C15_BurnedAfterWithdraw ==
    /\ last.op = "burn" /\ last.res = "ok" /\ last.args[2] > 0
    /\ withdrawn > 0
    /\ \A a \in Account : balances[a] = 0
    /\ total_supply = withdrawn

C17_NoUnderflow ==
    /\ [](/\ \A a \in Account : balances[a] >= 0 /\ staked[a] >= 0
          /\ total_supply >= 0)
    /\ [][/\ (Succeeded("tip") \/ Succeeded("withdraw")
                \/ Succeeded("burn") \/ Succeeded("stake")) =>
                balances[last'.args[1]] - last'.args[IF last'.op = "tip" THEN 3 ELSE 2] >= 0
          /\ Succeeded("unstake") => staked[last'.args[1]] - last'.args[2] >= 0
          /\ (Called("burn") /\ balances[last'.args[1]] >= last'.args[2]) =>
                /\ total_supply - last'.args[2] >= 0
                /\ last'.res = "ok"]_vars

\* A burn has brought total_supply to zero: the largest decrement the
\* balance check allows.
C17_SupplyBurnedToZero ==
    /\ last.op = "burn" /\ last.res = "ok" /\ last.args[2] > 0
    /\ total_supply = 0

\* The sum of the values of f over the accounts in A.
RECURSIVE Sum(_, _)
Sum(f, A) ==
    IF A = {}
    THEN 0
    ELSE LET a == CHOOSE x \in A : TRUE
         IN  f[a] + Sum(f, A \ {a})

\* C18: in every reachable state total_supply is the sum of all available
\* balances plus the sum of all staked balances plus the sum of the amounts
\* of all successful withdraws; so total_supply is at least the tokens held
\* in the ledger, and equal to them as long as nothing has been withdrawn.
C18_SupplyAccounting ==
    LET held == Sum(balances, Account) + Sum(staked, Account)
    IN  /\ total_supply = held + withdrawn
        /\ total_supply >= held
        /\ withdrawn = 0 => total_supply = held

\* A positive amount has been withdrawn while tokens are staked:
\* total_supply exceeds the tokens held.
C18_WithdrawnWithStakeAndReward ==
    /\ last.op = "withdraw" /\ last.res = "ok" /\ last.args[2] > 0
    /\ \E a \in Account : staked[a] > 0
    /\ total_supply > Sum(balances, Account) + Sum(staked, Account)

\* C19: with a clock that never goes back, voting and finalizing exclude
\* each other in time for every proposal: at no instant can both a vote and
\* a finalize_proposal on it succeed, a vote succeeds only before the
\* deadline and a finalization only from the deadline on; once a proposal
\* is finalized no vote on it succeeds and its votes_for, votes_against
\* and deadline (and every other field) stay as they are.
C19_VoteThenFinalize ==
    /\ [](\A p \in ProposalIds :
            /\ (Exists(p) /\ proposals[p].finalized) => now >= proposals[p].deadline
            /\ \A c \in Account, s \in BOOLEAN :
                  ~(/\ vote(Cur, c, p, s, now).res = "ok"
                    /\ finalize_proposal(Cur, admin, p, now).res = "ok"))
    /\ [][/\ now' >= now
          /\ Succeeded("vote") =>
                /\ now < proposals[last'.args[2]].deadline
                /\ ~proposals[last'.args[2]].finalized
          /\ Succeeded("finalize_proposal") =>
                now >= proposals[last'.args[2]].deadline
          /\ \A p \in ProposalIds : (Exists(p) /\ proposals[p].finalized) =>
                proposals'[p] = proposals[p]]_vars

\* A vote on a finalized proposal that had collected votes has been
\* rejected with VotingEnded.
C19_VoteAfterFinalizeRejected ==
    /\ last.op = "vote" /\ last.res = "VotingEnded"
    /\ Exists(last.args[2])
    /\ proposals[last.args[2]].finalized
    /\ proposals[last.args[2]].votes_for + proposals[last.args[2]].votes_against > 0

\* C20: claim_rewards yields floor(s * 5 / 100) for every staked amount s
\* of the amount type, also when s * 5 exceeds the type's maximum: whenever
\* the reward itself fits the caller's balance and total_supply, the call
\* returns and credits exactly (s * 5) \div 100.
C20_RewardForEveryStake ==
    [][Called("claim_rewards") =>
        LET caller == last'.args[1]
            s == staked[caller]
            reward == (s * 5) \div 100
        IN  (s > 0 /\ Fits(balances[caller] + reward) /\ Fits(total_supply + reward)) =>
                /\ last'.res = "ok"
                /\ balances'[caller] = balances[caller] + reward
                /\ total_supply' = total_supply + reward]_vars
====
